---- MODULE Spec2Model ----
(***************************************************************************)
(* Model of src/amm/uniswap_v2/batch_request/mod.rs: the three batch       *)
(* requests get_pairs_batch_request, get_amm_data_batch_request and        *)
(* get_v2_pool_data_batch_request, each running                            *)
(*   deploy (staging) -> call_raw (one network call) -> abi decode ->      *)
(*   merge loop over the decoded tokens.                                   *)
(* One invocation is a run of actions Call, Deploy*, CallRaw*, Decode*,    *)
(* one *Iter action per element of the decoded array, and Return.          *)
(* Option<T> is modelled as a sequence: <<>> is None, <<v>> is Some(v).    *)
(***************************************************************************)
EXTENDS Integers, Sequences, FiniteSets, TLC

(* ---------------------------- bounds ----------------------------------- *)
MaxRecords == 2
MaxTuples == 3
MaxCalls == 2

(* ------------------------- program constants --------------------------- *)
ZeroAddress == 0
U8Modulus == 256

PAIRS == "get_pairs_batch_request"
BULK == "get_amm_data_batch_request"
SINGLE == "get_v2_pool_data_batch_request"

(* ------------------------------ tokens --------------------------------- *)
Address(a) == [kind |-> "Address", val |-> a]
Uint(v) == [kind |-> "Uint", val |-> v]
Bool(v) == [kind |-> "Bool", val |-> v]
Tuple(fs) == [kind |-> "Tuple", val |-> fs]
Array(xs) == [kind |-> "Array", val |-> xs]

into_address(t) == IF t.kind = "Address" THEN <<t.val>> ELSE <<>>
into_uint(t) == IF t.kind = "Uint" THEN <<t.val>> ELSE <<>>
into_tuple(t) == IF t.kind = "Tuple" THEN <<t.val>> ELSE <<>>
into_array(t) == IF t.kind = "Array" THEN <<t.val>> ELSE <<>>
is_zero(a) == a = ZeroAddress

\* U256::as_u32() followed by `as u8` (lines 31, 33): as_u32 keeps the value
\* (a Uint(8) field fits 32 bits), the cast keeps the low 8 bits.
as_u8(v) == v % U8Modulus
\* U256::as_u128() (lines 34, 35): a Uint(112) field fits, the value is kept.
as_u128(v) == v

(* ------------------------------ records -------------------------------- *)
\* An AMM of the caller: the enum variant, the pool address (its identifier)
\* and the six fields populate_pool_data_from_tokens writes.
MkPool(k, addr, ta, tad, tb, tbd, r0, r1) ==
    [kind |-> k, address |-> addr, token_a |-> ta, token_a_decimals |-> tad,
     token_b |-> tb, token_b_decimals |-> tbd, reserve_0 |-> r0, reserve_1 |-> r1]

\* The six fields of a record, in the order of the decoded tuple.
SixFields(p) ==
    <<p.token_a, p.token_a_decimals, p.token_b, p.token_b_decimals,
      p.reserve_0, p.reserve_1>>

\* Field k of the decoded tuple converted as lines 30-35 convert it.
ExtractField(k, tok) ==
    LET o == IF k \in {1, 3} THEN into_address(tok) ELSE into_uint(tok)
    IN  IF o = <<>> THEN <<>>
        ELSE IF k \in {2, 4} THEN <<as_u8(o[1])>>
        ELSE IF k \in {5, 6} THEN <<as_u128(o[1])>>
        ELSE o

SetField(p, k, v) ==
    CASE k = 1 -> [p EXCEPT !.token_a = v]
      [] k = 2 -> [p EXCEPT !.token_a_decimals = v]
      [] k = 3 -> [p EXCEPT !.token_b = v]
      [] k = 4 -> [p EXCEPT !.token_b_decimals = v]
      [] k = 5 -> [p EXCEPT !.reserve_0 = v]
      [] OTHER -> [p EXCEPT !.reserve_1 = v]

\* Lines 30-37 on the by-value copy `mut pool`: assign field k, k+1, ... in
\* order; the first failed extraction (`?`) returns None and drops the copy.
RECURSIVE PopulateFrom(_, _, _)
PopulateFrom(p, tokens, k) ==
    IF k > 6 THEN <<p>>
    ELSE LET v == ExtractField(k, tokens[k])
         IN  IF v = <<>> THEN <<>>
             ELSE PopulateFrom(SetField(p, k, v[1]), tokens, k + 1)

\* A populate that writes through to the record: a failed extraction leaves
\* the fields assigned so far in place.
RECURSIVE PopulateInPlaceFrom(_, _, _)
PopulateInPlaceFrom(p, tokens, k) ==
    IF k > 6 THEN <<p>>
    ELSE LET v == ExtractField(k, tokens[k])
         IN  IF v = <<>> THEN <<p>>
             ELSE PopulateInPlaceFrom(SetField(p, k, v[1]), tokens, k + 1)

populate_in_place(pool_, tokens) == PopulateInPlaceFrom(pool_, tokens, 1)

\* A populate that also overwrites the record's own address with token A.
populate_rekeyed(pool_, tokens) ==
    LET r == PopulateFrom(pool_, tokens, 1)
    IN  IF r = <<>> THEN <<>> ELSE <<[r[1] EXCEPT !.address = r[1].token_a]>>

\* A populate that adds the decoded reserves to the stored ones.
populate_accumulating(pool_, tokens) ==
    LET r == PopulateFrom(pool_, tokens, 1)
    IN  IF r = <<>> THEN <<>>
        ELSE <<[r[1] EXCEPT !.reserve_0 = pool_.reserve_0 + r[1].reserve_0]>>

populate_pool_data_from_tokens(pool_, tokens) == PopulateFrom(pool_, tokens, 1)

(* ---------------------- bulk and single merge steps -------------------- *)
\* The caller's slice after `*uniswap_v2_pool = pool` at 0-based position i.
SetRecord(a, i, p) == [a EXCEPT ![i + 1] = p]

\* One iteration of the inner loop of get_amm_data_batch_request (lines
\* 116-138) on element tup: the new slice, the new pool_idx, and whether
\* the `expect("Pool idx should be in bounds")` aborted the call.
BulkOutcome(a, idx, panicked) == [amms |-> a, pool_idx |-> idx, panic |-> panicked]

\* A bulk step whose position only advances when a tuple was merged.
BulkStepCountingMerges(a, idx, tup) ==
    LET t == into_tuple(tup)
    IN  IF t = <<>> THEN BulkOutcome(a, idx, FALSE)
        ELSE LET pool_data == t[1]
                 address == into_address(pool_data[1])
             IN  IF address # <<>> /\ ~is_zero(address[1])
                 THEN IF idx >= Len(a) THEN BulkOutcome(a, idx, TRUE)
                      ELSE IF a[idx + 1].kind = "UniswapV2Pool"
                           THEN LET p == populate_pool_data_from_tokens(a[idx + 1], pool_data)
                                IN  IF p # <<>>
                                    THEN BulkOutcome(SetRecord(a, idx, p[1]), idx + 1, FALSE)
                                    ELSE BulkOutcome(a, idx + 1, FALSE)
                           ELSE BulkOutcome(a, idx + 1, FALSE)
                 ELSE BulkOutcome(a, idx, FALSE)

BulkStep(a, idx, tup) ==
    LET t == into_tuple(tup)
    IN  IF t = <<>> THEN BulkOutcome(a, idx, FALSE)
        ELSE LET pool_data == t[1]
                 address == into_address(pool_data[1])
             IN  IF address # <<>> /\ ~is_zero(address[1])
                 THEN IF idx >= Len(a) THEN BulkOutcome(a, idx, TRUE)
                      ELSE IF a[idx + 1].kind = "UniswapV2Pool"
                           THEN LET p == populate_pool_data_from_tokens(a[idx + 1], pool_data)
                                IN  IF p # <<>>
                                    THEN BulkOutcome(SetRecord(a, idx, p[1]), idx + 1, FALSE)
                                    ELSE BulkOutcome(a, idx + 1, FALSE)
                           ELSE BulkOutcome(a, idx + 1, FALSE)
                 ELSE BulkOutcome(a, idx + 1, FALSE)

\* One iteration of the inner loop of get_v2_pool_data_batch_request (lines
\* 172-179): Some(new pool), or None for BatchRequestError(pool.address).
SingleStep(p, tup) ==
    LET t == into_tuple(tup)
    IN  IF t = <<>> THEN <<>> ELSE populate_pool_data_from_tokens(p, t[1])

\* One iteration of the inner loop of get_pairs_batch_request (lines 67-73).
\* The variant below it pushes every address, the zero address included.
PushPairUnfiltered(ps, token) ==
    LET addr == into_address(token)
    IN  IF addr # <<>> THEN Append(ps, addr[1]) ELSE ps

PushPair(ps, token) ==
    LET addr == into_address(token)
    IN  IF addr # <<>> /\ ~is_zero(addr[1]) THEN Append(ps, addr[1]) ELSE ps

\* The elements the nested loops visit: every top-level token that is an
\* array contributes its elements, in order (lines 65-66, 114-115, 170-171).
RECURSIVE Elements(_)
Elements(toks) ==
    IF toks = <<>> THEN <<>>
    ELSE LET arr == into_array(Head(toks))
         IN  (IF arr = <<>> THEN <<>> ELSE arr[1]) \o Elements(Tail(toks))

(* ------------------------------ results -------------------------------- *)
NoResult == [kind |-> "None", op |-> "", addr |-> ZeroAddress]
Ok == [kind |-> "Ok", op |-> "", addr |-> ZeroAddress]
Panic == [kind |-> "Panic", op |-> "", addr |-> ZeroAddress]
ContractError(name, addr) == [kind |-> "ContractError", op |-> name, addr |-> addr]
ProviderError(name, addr) == [kind |-> "ProviderError", op |-> name, addr |-> addr]
DecodeError == [kind |-> "DecodeError", op |-> "", addr |-> ZeroAddress]
BatchRequestError(addr) == [kind |-> "BatchRequestError", op |-> "", addr |-> addr]

(* ------------------------------- inputs -------------------------------- *)
\* What abi::decode yields for the schema of lines 101-108 / 159-166: a
\* 6-tuple (address, uint8, address, uint8, uint112, uint112).
DecodedTuple(ta, tad, tb, tbd, r0, r1) ==
    Tuple(<<Address(ta), Uint(tad), Address(tb), Uint(tbd), Uint(r0), Uint(r1)>>)

\* The decoded tuples the remote may answer with: the all-zero sentinel, a
\* sentinel whose other fields are set, and two populated tuples that differ
\* in every field.
DecodedTuples ==
    { DecodedTuple(0, 0, 0, 0, 0, 0),
      DecodedTuple(0, 18, 2, 6, 1000, 2000),
      DecodedTuple(1, 18, 2, 6, 1000, 2000),
      DecodedTuple(2, 6, 1, 18, 2000, 1000) }

\* Element k of a tuple replaced by a token of another kind.
WithBadField(tup, k) == Tuple([tup.val EXCEPT ![k] = Bool(1)])

\* Token vectors outside the schema, for the Option paths of into_tuple and
\* populate_pool_data_from_tokens: an element that is no tuple, and tuples
\* whose first, second or last field has the wrong kind.
RawElements ==
    { DecodedTuple(2, 6, 1, 18, 2000, 1000), Array(<<>>) }
    \cup { WithBadField(DecodedTuple(1, 18, 2, 6, 1000, 2000), k) : k \in {1, 2, 6} }

DecodedAddresses == { Address(0), Address(1), Address(2) }
RawAddresses == { Address(0), Address(1), Bool(1) }

SeqsUpTo(S, n) == UNION { [1..m -> S] : m \in 0..n }

\* A caller-supplied AMM at 0-based position i: a fresh UniswapV2Pool, one
\* populated earlier, or an AMM of another variant.
PoolAddress(i) == 10 + i
InitialRecords(i) ==
    { MkPool("UniswapV2Pool", PoolAddress(i), 0, 0, 0, 0, 0, 0),
      MkPool("UniswapV2Pool", PoolAddress(i), 3, 8, 4, 9, 5, 7),
      MkPool("UniswapV3Pool", PoolAddress(i), 3, 8, 4, 9, 5, 7) }

InitialSlices ==
    UNION { { a \in [1..n -> UNION { InitialRecords(i) : i \in 0..(n - 1) }] :
                \A i \in 1..n : a[i].address = PoolAddress(i - 1) } : n \in 0..MaxRecords }

InitialPools == { r \in InitialRecords(0) : r.kind = "UniswapV2Pool" }
FactoryAddresses == { 20 }

(* ------------------------------- state --------------------------------- *)
VARIABLES
    op,                  \* the function the caller invokes
    factory,             \* get_pairs_batch_request's factory argument
    amms,                \* get_amm_data_batch_request's &mut [AMM]
    pool,                \* get_v2_pool_data_batch_request's &mut UniswapV2Pool
    remote,              \* the array the remote evaluation returns
    pc,                  \* position of the running invocation
    return_data_tokens,  \* the decoded tokens
    cursor,              \* elements of the array already iterated
    pool_idx,            \* line 112
    pairs,               \* line 64
    result,              \* what the invocation returned
    deploys,             \* deploy() calls of this invocation
    net_calls,           \* call_raw() calls of this invocation
    decodes,             \* abi::decode calls of this invocation
    calls,               \* invocations started
    before_amms,         \* amms when the invocation started
    before_pool,         \* pool when the invocation started
    prev_result,         \* result of the previous invocation
    prev_pairs           \* pairs of the previous invocation

vars == <<op, factory, amms, pool, remote, pc, return_data_tokens, cursor, pool_idx,
          pairs, result, deploys, net_calls, decodes, calls, before_amms, before_pool,
          prev_result, prev_pairs>>

inputs == <<op, factory, remote>>
history == <<calls, before_amms, before_pool, prev_result, prev_pairs>>

DefaultPool == MkPool("UniswapV2Pool", ZeroAddress, 0, 0, 0, 0, 0, 0)

\* The address the errors of lines 53/57, 94/99 and 152/157 carry.
BatchAddress ==
    IF op = PAIRS THEN factory
    ELSE IF op = BULK THEN (IF amms = <<>> THEN ZeroAddress ELSE amms[1].address)
    ELSE pool.address

InitControl ==
    /\ pc = "idle"
    /\ return_data_tokens = <<>>
    /\ cursor = 0
    /\ pool_idx = 0
    /\ pairs = <<>>
    /\ result = NoResult
    /\ deploys = 0
    /\ net_calls = 0
    /\ decodes = 0
    /\ calls = 0
    /\ prev_result = NoResult
    /\ prev_pairs = <<>>

InitArguments(dataElements, addressElements) ==
    /\ factory \in FactoryAddresses
    /\ \/ /\ op = PAIRS
          /\ amms = <<>>
          /\ pool = DefaultPool
          /\ remote \in SeqsUpTo(addressElements, MaxTuples)
       \/ /\ op = BULK
          /\ amms \in InitialSlices
          /\ pool = DefaultPool
          /\ remote \in SeqsUpTo(dataElements, MaxTuples)
       \/ /\ op = SINGLE
          /\ amms = <<>>
          /\ pool \in InitialPools
          /\ remote \in SeqsUpTo(dataElements, MaxTuples)
    /\ before_amms = amms
    /\ before_pool = pool

\* The remote answers within the declared schema.
Init == InitControl /\ InitArguments(DecodedTuples, DecodedAddresses)

\* The token vectors are arbitrary.
InitRaw == InitControl /\ InitArguments(RawElements, RawAddresses)

(* ------------------------------ actions -------------------------------- *)
\* The caller invokes op (again, after an invocation that returned).
Call ==
    /\ pc \in {"idle", "done"}
    /\ result.kind # "Panic"
    /\ calls < MaxCalls
    /\ calls' = calls + 1
    /\ pc' = "staging"
    /\ before_amms' = amms
    /\ before_pool' = pool
    /\ prev_result' = result
    /\ prev_pairs' = pairs
    /\ result' = NoResult
    /\ return_data_tokens' = <<>>
    /\ cursor' = 0
    /\ pool_idx' = 0
    /\ pairs' = <<>>
    /\ deploys' = 0
    /\ net_calls' = 0
    /\ decodes' = 0
    /\ UNCHANGED <<inputs, amms, pool>>

Fail(err) ==
    /\ result' = err
    /\ pc' = "done"

\* deploy(middleware, constructor_args) succeeds (lines 52, 93, 151).
DeployOk ==
    /\ pc = "staging"
    /\ deploys' = deploys + 1
    /\ pc' = "deployed"
    /\ UNCHANGED <<inputs, history, amms, pool, return_data_tokens, cursor, pool_idx,
                   pairs, result, net_calls, decodes>>

\* deploy fails: map_err to ContractError and `?` (lines 53, 94, 152).
DeployErr ==
    /\ pc = "staging"
    /\ deploys' = deploys + 1
    /\ Fail(ContractError(op, BatchAddress))
    /\ UNCHANGED <<inputs, history, amms, pool, return_data_tokens, cursor, pool_idx,
                   pairs, net_calls, decodes>>

\* call_raw().await delivers the return data (lines 54-56, 96-98, 154-156).
CallRawOk ==
    /\ pc = "deployed"
    /\ net_calls' = net_calls + 1
    /\ pc' = "delivered"
    /\ UNCHANGED <<inputs, history, amms, pool, return_data_tokens, cursor, pool_idx,
                   pairs, result, deploys, decodes>>

\* A call_raw whose failure sends the invocation back to issue the call again.
CallRawErrRetrying ==
    /\ pc = "deployed"
    /\ net_calls' = net_calls + 1
    /\ pc' = "deployed"
    /\ UNCHANGED <<inputs, history, amms, pool, return_data_tokens, cursor, pool_idx,
                   pairs, result, deploys, decodes>>

\* call_raw fails: map_err to ProviderError and `?` (lines 57, 99, 157).
CallRawErr ==
    /\ pc = "deployed"
    /\ net_calls' = net_calls + 1
    /\ Fail(ProviderError(op, BatchAddress))
    /\ UNCHANGED <<inputs, history, amms, pool, return_data_tokens, cursor, pool_idx,
                   pairs, deploys, decodes>>

\* abi::decode yields one top-level array token (lines 59-62, 100-110, 158-168).
DecodeOk ==
    /\ pc = "delivered"
    /\ decodes' = decodes + 1
    /\ return_data_tokens' = <<Array(remote)>>
    /\ pc' = "merging"
    /\ UNCHANGED <<inputs, history, amms, pool, cursor, pool_idx, pairs, result,
                   deploys, net_calls>>

\* A decode failure that first resets the caller's records to their defaults.
DecodeErrClearing ==
    /\ pc = "delivered"
    /\ decodes' = decodes + 1
    /\ Fail(DecodeError)
    /\ amms' = [i \in 1..Len(amms) |-> [DefaultPool EXCEPT !.address = amms[i].address,
                                                            !.kind = amms[i].kind]]
    /\ pool' = [DefaultPool EXCEPT !.address = pool.address]
    /\ UNCHANGED <<inputs, history, return_data_tokens, cursor, pool_idx,
                   pairs, deploys, net_calls>>

\* abi::decode rejects the buffer: `?` (lines 62, 110, 168).
DecodeErr ==
    /\ pc = "delivered"
    /\ decodes' = decodes + 1
    /\ Fail(DecodeError)
    /\ UNCHANGED <<inputs, history, amms, pool, return_data_tokens, cursor, pool_idx,
                   pairs, deploys, net_calls>>

\* The element the loop is at.
Current == Elements(return_data_tokens)[cursor + 1]
MoreElements == cursor < Len(Elements(return_data_tokens))

\* get_pairs_batch_request, one `for token in arr` iteration (lines 67-73).
PairsIter ==
    /\ pc = "merging" /\ op = PAIRS /\ MoreElements
    /\ pairs' = PushPair(pairs, Current)
    /\ cursor' = cursor + 1
    /\ UNCHANGED <<inputs, history, amms, pool, pc, return_data_tokens, pool_idx,
                   result, deploys, net_calls, decodes>>

\* get_amm_data_batch_request, one `for tup in tokens_arr` iteration (116-138).
BulkIter ==
    /\ pc = "merging" /\ op = BULK /\ MoreElements
    /\ LET out == BulkStep(amms, pool_idx, Current)
       IN  /\ amms' = out.amms
           /\ pool_idx' = out.pool_idx
           /\ cursor' = cursor + 1
           /\ result' = IF out.panic THEN Panic ELSE result
           /\ pc' = IF out.panic THEN "done" ELSE pc
    /\ UNCHANGED <<inputs, history, pool, return_data_tokens, pairs,
                   deploys, net_calls, decodes>>

\* get_v2_pool_data_batch_request, one `for tup in tokens_arr` iteration (172-179).
SingleIter ==
    /\ pc = "merging" /\ op = SINGLE /\ MoreElements
    /\ LET out == SingleStep(pool, Current)
       IN  /\ pool' = IF out = <<>> THEN pool ELSE out[1]
           /\ result' = IF out = <<>> THEN BatchRequestError(pool.address) ELSE result
           /\ pc' = IF out = <<>> THEN "done" ELSE pc
    /\ cursor' = cursor + 1
    /\ UNCHANGED <<inputs, history, amms, return_data_tokens, pool_idx, pairs,
                   deploys, net_calls, decodes>>

\* The loops are over: Ok(pairs) (line 77) or Ok(()) (lines 142, 183).
Return ==
    /\ pc = "merging" /\ ~MoreElements
    /\ result' = Ok
    /\ pc' = "done"
    /\ UNCHANGED <<inputs, history, amms, pool, return_data_tokens, cursor, pool_idx,
                   pairs, deploys, net_calls, decodes>>

Next ==
    \/ Call
    \/ DeployOk
    \/ DeployErr
    \/ CallRawOk
    \/ CallRawErr
    \/ DecodeOk
    \/ DecodeErr
    \/ PairsIter
    \/ BulkIter
    \/ SingleIter
    \/ Return

Spec == Init /\ [][Next]_vars
SpecRaw == InitRaw /\ [][Next]_vars

(* ------------------------------ claims --------------------------------- *)
IsError(r) ==
    r.kind \in {"ContractError", "ProviderError", "DecodeError", "BatchRequestError"}
Decoded == return_data_tokens # <<>>
Returned == pc = "done"
V2(r) == r.kind = "UniswapV2Pool"

\* A decoded element is a tuple whose six fields all have the schema's kinds.
WellTyped(t) ==
    /\ t.kind = "Tuple"
    /\ \A k \in {1, 3} : t.val[k].kind = "Address"
    /\ \A k \in {2, 4, 5, 6} : t.val[k].kind = "Uint"
\* The six values a tuple carries, and its token A.
TupleValues(t) == [k \in 1..6 |-> t.val[k].val]
TokenA(t) == t.val[1].val
HasTokenA(t) == t.kind = "Tuple" /\ t.val[1].kind = "Address" /\ TokenA(t) # ZeroAddress
\* Record new is record old with exactly the six fields of tuple t.
PopulatedFrom(old, new, t) ==
    /\ WellTyped(t)
    /\ SixFields(new) = TupleValues(t)
    /\ new.kind = old.kind
    /\ new.address = old.address
NonZero(a) == a # ZeroAddress
Changed == { i \in 1..Len(before_amms) : amms[i] # before_amms[i] }

\* C1: single populate whose decoded tuple has a zero token A returns an
\* error carrying the requested pool address, never Ok.
C1_SingleZeroTokenAFails ==
    (op = SINGLE /\ Returned /\ Decoded /\ Len(remote) >= 1 /\ TokenA(remote[1]) = ZeroAddress)
        => (IsError(result) /\ result.addr = pool.address)

\* C2: bulk populate leaves record i exactly as it was whenever tuple i has
\* a zero token A, and the call returns Ok.
C2_SentinelLeavesRecordAndOk ==
    (op = BULK /\ Returned /\ Decoded)
        => \A i \in 1..Len(before_amms) :
              (i <= Len(remote) /\ TokenA(remote[i]) = ZeroAddress)
                  => (amms[i] = before_amms[i] /\ result = Ok)

\* C3: after a successful bulk populate, a UniswapV2 record whose own tuple
\* has a non-zero token A holds exactly that tuple's six fields, and every
\* other record is untouched: no tuple updates a position other than its own.
C3_PositionalCorrelation ==
    (op = BULK /\ Returned /\ result = Ok)
        => /\ Len(amms) = Len(before_amms)
           /\ \A i \in 1..Len(before_amms) :
                 IF i <= Len(remote) /\ HasTokenA(remote[i]) /\ V2(before_amms[i])
                 THEN PopulatedFrom(before_amms[i], amms[i], remote[i])
                 ELSE amms[i] = before_amms[i]

C3_Witness ==
    /\ op = BULK /\ Returned /\ result = Ok /\ calls = 1
    /\ Len(amms) = 2 /\ Len(remote) >= 2
    /\ ~HasTokenA(remote[1]) /\ HasTokenA(remote[2])
    /\ V2(amms[2]) /\ amms[2] # before_amms[2] /\ amms[1] = before_amms[1]

\* C4: discovery returns the decoded addresses with the zero addresses
\* removed and the order kept, and a repeated call returns the same list.
C4_PairsAreNonZeroInOrder ==
    (op = PAIRS /\ Returned /\ result = Ok)
        => /\ pairs = SelectSeq([i \in 1..Len(remote) |-> remote[i].val], NonZero)
           /\ (prev_result = Ok => pairs = prev_pairs)

C4_Witness ==
    /\ op = PAIRS /\ Returned /\ result = Ok /\ calls = 2 /\ prev_result = Ok
    /\ Len(remote) = 3 /\ remote[2].val = ZeroAddress
    /\ pairs = <<remote[1].val, remote[3].val>> /\ pairs[1] # pairs[2]

\* C5: a bulk or single populate that returns an error leaves every record
\* of the caller as it was before the call.
C5_FailedBatchMutatesNothing ==
    (op \in {BULK, SINGLE} /\ Returned /\ IsError(result))
        => (amms = before_amms /\ pool = before_pool)

C5_Witness ==
    /\ op = BULK /\ Returned /\ result.kind = "DecodeError"
    /\ Len(amms) >= 1 /\ Len(remote) >= 1 /\ HasTokenA(remote[1]) /\ V2(amms[1])
    /\ SixFields(amms[1]) # TupleValues(remote[1])

\* C6: a successful bulk populate keeps the length of the list and the
\* address at every position, and changes at most N records and at most as
\* many as there are tuples with a non-zero token A.
C6_LengthOrderAndChangeCount ==
    (op = BULK /\ Returned /\ result = Ok)
        => /\ Len(amms) = Len(before_amms)
           /\ \A i \in 1..Len(before_amms) : amms[i].address = before_amms[i].address
           /\ Cardinality(Changed) <= Len(before_amms)
           /\ Cardinality(Changed)
                 <= Cardinality({ j \in 1..Len(remote) : HasTokenA(remote[j]) })

C6_Witness ==
    /\ op = BULK /\ Returned /\ result = Ok
    /\ Len(amms) = 2 /\ Cardinality(Changed) = 1
    /\ Cardinality({ j \in 1..Len(remote) : HasTokenA(remote[j]) }) = 2

\* C7: the stages run in the order staging, one network call, decode, merge
\* and stop at the first failure: ContractError (naming the operation and
\* the batch address) before any network call, ProviderError before any
\* decode, a decode error before any merge; no stage runs twice.
NothingMerged ==
    cursor = 0 /\ pairs = <<>> /\ amms = before_amms /\ pool = before_pool
ExpectedBatchAddress ==
    CASE op = PAIRS -> factory
      [] op = BULK -> IF Len(before_amms) = 0 THEN ZeroAddress ELSE before_amms[1].address
      [] OTHER -> before_pool.address
C7_StagesInOrder ==
    /\ deploys <= 1 /\ net_calls <= 1 /\ decodes <= 1
    /\ net_calls > 0 => deploys = 1
    /\ decodes > 0 => net_calls = 1
    /\ (cursor > 0 \/ Decoded) => decodes = 1
    /\ result.kind = "ContractError"
          => /\ net_calls = 0 /\ decodes = 0 /\ ~Decoded /\ NothingMerged /\ Returned
             /\ result.op = op /\ result.addr = ExpectedBatchAddress
    /\ result.kind = "ProviderError"
          => /\ decodes = 0 /\ ~Decoded /\ NothingMerged /\ Returned
             /\ result.op = op /\ result.addr = ExpectedBatchAddress
    /\ result.kind = "DecodeError" => (~Decoded /\ NothingMerged /\ Returned)

C7_Witness ==
    /\ op = BULK /\ result.kind = "ProviderError" /\ net_calls = 1 /\ calls = 2
    /\ prev_result.kind = "ContractError" /\ Len(amms) >= 1

\* C8: every step leaves each record either as it was before the tuple was
\* processed or with all six fields taken from that tuple, also when a field
\* of the tuple cannot be extracted.
C8_AllOrNothing ==
    [][ /\ Len(amms') = Len(amms)
        /\ \A i \in 1..Len(amms) :
              \/ amms'[i] = amms[i]
              \/ /\ pc = "merging" /\ op = BULK /\ MoreElements
                 /\ PopulatedFrom(amms[i], amms'[i], Current)
        /\ \/ pool' = pool
           \/ /\ pc = "merging" /\ op = SINGLE /\ MoreElements
              /\ PopulatedFrom(pool, pool', Current) ]_vars

C8_Witness ==
    /\ op = BULK /\ pc = "merging" /\ calls = 1 /\ cursor >= 1
    /\ LET t == remote[cursor]
       IN  /\ HasTokenA(t)
           /\ \E k \in 2..6 : t.val[k].kind = "Bool"
           /\ pool_idx >= 1 /\ pool_idx <= Len(amms)
           /\ V2(amms[pool_idx])
           /\ amms[pool_idx] = before_amms[pool_idx]
    /\ \A j \in 1..(cursor - 1) : ~HasTokenA(remote[j])

\* C9: a second successful bulk populate against the same decoded tuples
\* leaves every record as the first one left it.
C9_BulkIdempotent ==
    (op = BULK /\ Returned /\ result = Ok /\ calls >= 2 /\ prev_result = Ok)
        => amms = before_amms

C9_Witness ==
    /\ op = BULK /\ Returned /\ result = Ok /\ calls = 2 /\ prev_result = Ok
    /\ Len(amms) = 2 /\ Len(remote) = 2
    /\ \A i \in 1..2 : HasTokenA(remote[i]) /\ V2(amms[i])
                        /\ SixFields(amms[i]) = TupleValues(remote[i])

\* C10: whenever a tuple with a non-zero token A is about to be merged the
\* position is inside the slice, so the call never aborts, and the position
\* has advanced by one for every tuple iterated so far.
C10_PoolIdxInBounds ==
    /\ result.kind # "Panic"
    /\ (op = BULK /\ pc = "merging") => pool_idx = cursor
    /\ (op = BULK /\ pc = "merging" /\ MoreElements /\ HasTokenA(Current))
          => pool_idx < Len(amms)

====
